---- MODULE Spec2Model ----
(***************************************************************************)
(* State-machine model of the MCP client of rube-iks-cube:                 *)
(*   src/mcp_client.py   MCPClient (handshake, tools/list, tools/call)     *)
(*   src/main.py         query_mcp_server, authenticate_with_oauth         *)
(*   src/oauth_client.py OAuth2Client.interactive_auth_flow                *)
(*                                                                         *)
(* The coroutines are cut at their suspension points (every await): one    *)
(* action is the code that runs between two awaits.  The transport, the    *)
(* server and the user at the prompts are the environment: what they       *)
(* deliver is drawn from small sets.                                       *)
(***************************************************************************)
EXTENDS Integers, Sequences, FiniteSets, TLC

VARIABLES
    driver,          \* who drives the code: "query" (query_mcp_server), "caller"
                     \* (of the MCPClient) or "exchange" (of exchange_code_for_token)
    headers,         \* MCPClient.headers
    session_id,      \* MCPClient._session_id
    next_request_id, \* MCPClient._next_request_id
    sessions,        \* every transport session opened so far, in order
    task,            \* the coroutine of each running introspect_tools / call_tool
    opsStarted,      \* number of operations the caller has started
    mpc,             \* position of query_mcp_server
    firstError,      \* the exception caught at main.py:124 (NoError before)
    retryError,      \* the exception caught at main.py:168 (NoError before)
    oauth,           \* state of authenticate_with_oauth / interactive_auth_flow
    oauthCalls,      \* number of calls of authenticate_with_oauth
    panels,          \* the result panels printed by query_mcp_server, in order
    exchange,        \* the calls of OAuth2Client.exchange_code_for_token
    ctor,            \* the headers argument of MCPClient(...) and the caller's mapping
    lastSet          \* the last setter call made by the driver of the setters

clientVars == <<headers, session_id, next_request_id>>
mainVars   == <<mpc, firstError, retryError, oauth, oauthCalls, panels>>
callerVars == <<ctor, lastSet>>
vars == <<driver, headers, session_id, next_request_id, sessions, task,
          opsStarted, mpc, firstError, retryError, oauth, oauthCalls, panels,
          exchange, ctor, lastSet>>

(***************************************************************************)
(* Bounds of the model.                                                    *)
(***************************************************************************)
\* Operations a generic caller starts on one client.
MaxOps == 2

Tasks == {"a"}

None == "None"

(***************************************************************************)
(* Strings the code inspects are sequences of tokens; a Python             *)
(* `needle in text` is a search for a contiguous run of tokens.            *)
(***************************************************************************)
Contains(text, needle) ==
    \E i \in 0..(Len(text) - Len(needle)) :
        \A j \in 1..Len(needle) : text[i + j] = needle[j]

(***************************************************************************)
(* Exceptions.  type is the class name, status the HTTP status of the      *)
(* response an httpx.HTTPStatusError carries (0: no response attribute),   *)
(* group tells whether the exception left the transport's task group       *)
(* wrapped in an ExceptionGroup.                                           *)
(***************************************************************************)
NoError == [type |-> "NoError", status |-> 0, group |-> FALSE]

HTTPStatusError(s) == [type |-> "HTTPStatusError", status |-> s, group |-> FALSE]

ConnectError == [type |-> "ConnectError", status |-> 0, group |-> FALSE]

Grouped(e) == [e EXCEPT !.group = TRUE]

\* Exception objects the transport puts on the read stream.
StreamErrors == {HTTPStatusError(401), HTTPStatusError(403),
                 HTTPStatusError(500), ConnectError}

\* Errors with which the transport's task group ends the async with block.
AbortErrors == {Grouped(e) : e \in StreamErrors}

\* Raised by the client's own code.
UnexpectedFormat == [type |-> "Exception", status |-> 0, group |-> FALSE]

TypeError == [type |-> "TypeError", status |-> 0, group |-> FALSE]

AttributeError == [type |-> "AttributeError", status |-> 0, group |-> FALSE]

\* The status code as httpx prints it.
StatusText(s) ==
    CASE s = 401 -> "401"
      [] s = 403 -> "403"
      [] s = 500 -> "500"
      [] OTHER   -> "0"

\* httpx's reason phrase of a status code.
ReasonPhrase(s) ==
    CASE s = 401 -> <<"Unauthorized">>
      [] s = 403 -> <<"Forbidden">>
      [] s = 500 -> <<"Internal", "Server", "Error">>
      [] OTHER   -> <<>>

\* str(e) of the exception itself, without an enclosing group.
OwnMessage(e) ==
    CASE e.type = "HTTPStatusError" ->
            <<IF e.status >= 500 THEN "Server" ELSE "Client", "error",
              StatusText(e.status)>>
            \o ReasonPhrase(e.status) \o <<"for", "url">>
      [] e.type = "ConnectError" -> <<"All", "connection", "attempts", "failed">>
      [] e.type = "Exception" ->
            <<"Unexpected", "response", "format", "from", "tool", "call">>
      [] e.type = "TypeError" -> <<"object", "has", "no", "len">>
      [] e.type = "AttributeError" -> <<"object", "has", "no", "attribute", "get">>
      [] OTHER -> <<>>

GroupMessage == <<"unhandled", "errors", "in", "a", "TaskGroup">>

\* str(e)
Str(e) == IF e.group THEN GroupMessage ELSE OwnMessage(e)

\* traceback.format_exc(): the frames, then "<class>: <message>"; for an
\* ExceptionGroup the same for each sub-exception.
FormatExc(e) ==
    LET own == <<e.type, ":">> \o OwnMessage(e)
    IN  IF e.group
        THEN <<"Traceback", "ExceptionGroup", ":">> \o GroupMessage \o <<"+-">> \o own
        ELSE <<"Traceback">> \o own

(***************************************************************************)
(* main.py:130-131: the test that decides whether the first failure is     *)
(* answered with the OAuth flow.                                           *)
(***************************************************************************)

\* Mutant of IsAuthFailure: only the "401 Unauthorized" text is looked for.
IsAuthFailure_Only401Text(e) ==
    \/ Contains(Str(e), <<"401", "Unauthorized">>)
    \/ Contains(FormatExc(e), <<"401", "Unauthorized">>)

IsAuthFailure(e) ==
    \/ Contains(Str(e), <<"401", "Unauthorized">>)
    \/ Contains(FormatExc(e), <<"401", "Unauthorized">>)
    \/ Contains(Str(e), <<"HTTPStatusError">>)
    \/ Contains(FormatExc(e), <<"HTTPStatusError">>)

(***************************************************************************)
(* Python strings the code edits are sequences of characters.              *)
(***************************************************************************)
IsSpace(c) == c \in {" ", "\t"}

RECURSIVE LStrip(_)
LStrip(s) == IF s # <<>> /\ IsSpace(Head(s)) THEN LStrip(Tail(s)) ELSE s

RECURSIVE RStrip(_)
RStrip(s) ==
    IF s # <<>> /\ IsSpace(s[Len(s)]) THEN RStrip(SubSeq(s, 1, Len(s) - 1)) ELSE s

\* str.strip()
Strip(s) == RStrip(LStrip(s))

LowerChar(c) ==
    CASE c = "B" -> "b"
      [] c = "E" -> "e"
      [] c = "A" -> "a"
      [] c = "R" -> "r"
      [] OTHER   -> c

\* str.lower()
Lower(s) == [i \in 1..Len(s) |-> LowerChar(s[i])]

\* str.startswith(prefix)
StartsWith(s, prefix) ==
    Len(s) >= Len(prefix) /\ SubSeq(s, 1, Len(prefix)) = prefix

\* s[n:]
DropFirst(s, n) == IF n >= Len(s) THEN <<>> ELSE SubSeq(s, n + 1, Len(s))

BearerPrefix == <<"B", "e", "a", "r", "e", "r", " ">>

(***************************************************************************)
(* JSON values, tagged with their Python type.  A dict is a function from  *)
(* its keys to values.                                                     *)
(***************************************************************************)
EmptyDict == [k \in {} |-> None]

JList(items) == [t |-> "list", items |-> items]

JStr(s)  == [t |-> "str", s |-> s]

JInt(n)  == [t |-> "int", n |-> n]

JNull    == [t |-> "null"]

JDict(fields) == [t |-> "dict", fields |-> fields]

Echo == JDict([name |-> "echo", description |-> "echoes input"])

Add  == JDict([name |-> "add", description |-> "adds numbers"])

NoValue == [t |-> "none"]

\* result objects a server may put into the Response to tools/list
ListResults ==
    { EmptyDict,
      [nextCursor |-> JStr("c1")],
      [tools |-> JList(<<>>)],
      [tools |-> JList(<<Echo>>)],
      [tools |-> JList(<<Add, Echo>>)],
      [tools |-> JList(<<JStr("echo")>>)],
      [tools |-> JStr("echo")],
      [tools |-> JInt(5)],
      [tools |-> JNull],
      [tools |-> JDict([echo |-> Echo])],
      [tools |-> JStr("")] }

\* result objects a server may put into the Response to tools/call
CallResults == { EmptyDict, [content |-> JList(<<JStr("ok")>>)] }

\* result objects a server may put into the Response to initialize
InitResults == { [protocolVersion |-> JStr("2024-11-05")] }

(***************************************************************************)
(* What read_stream.receive() yields for a request with id `id`: an        *)
(* Exception object, or a SessionMessage whose root is a Response, an      *)
(* Error, or a notification or request of the server's own.  The server    *)
(* is free to answer with another id.                                      *)
(***************************************************************************)
NoReply == [kind |-> "none"]

Received(id, results) ==
    {[kind |-> "Exception", error |-> e] : e \in StreamErrors}
    \cup {[kind |-> "JSONRPCResponse", id |-> id, result |-> r] : r \in results}
    \cup {[kind |-> "JSONRPCResponse", id |-> id + 1, result |-> EmptyDict]}
    \cup {[kind |-> "JSONRPCError", id |-> i, code |-> -32601] : i \in {id, id + 1}}
    \cup {[kind |-> "JSONRPCNotification", method |-> "notifications/message"],
          [kind |-> "JSONRPCRequest", id |-> 1, method |-> "ping"]}

\* The session identifiers get_session_id() can return.
SessionIds == {None, "sess-1"}

(***************************************************************************)
(* Envelopes the client sends (mcp_client.py:102-109, 149-155, 185-192,    *)
(* 387-397).  A notification has no id field.                              *)
(***************************************************************************)
InitializeRequest(id) ==
    [jsonrpc |-> "2.0", id |-> id, method |-> "initialize"]

\* Mutant of InitializedNotification: the message is built as a request, with
\* an id field.
InitializedNotification_WithId ==
    [jsonrpc |-> "2.0", id |-> 0, method |-> "notifications/initialized"]

InitializedNotification ==
    [jsonrpc |-> "2.0", method |-> "notifications/initialized"]

ListToolsRequest(id) ==
    [jsonrpc |-> "2.0", id |-> id, method |-> "tools/list"]

ToolCallRequest(id, name) ==
    [jsonrpc |-> "2.0", id |-> id, method |-> "tools/call", name |-> name]

ToolMethods == {"tools/list", "tools/call"}

(***************************************************************************)
(* MCPClient: construction and the credential setters.                     *)
(***************************************************************************)
\* d[k] = v on a Python dict
DictSet(d, k, v) == [x \in DOMAIN d \cup {k} |-> IF x = k THEN v ELSE d[x]]

\* Mutant of set_bearer_token: the headers are replaced by a mapping that
\* holds the Authorization entry alone.
set_bearer_token_OnlyAuthorization(h, token) ==
    DictSet(EmptyDict, "Authorization", BearerPrefix \o token)

\* Mutant of set_bearer_token: the token is stored without the scheme.
set_bearer_token_NoScheme(h, token) == DictSet(h, "Authorization", token)

\* mcp_client.py:63: the headers after MCPClient.set_bearer_token(token).
set_bearer_token(h, token) == DictSet(h, "Authorization", BearerPrefix \o token)

\* MCPClient.set_api_key: the headers after the call
set_api_key(h, api_key, header_name) == DictSet(h, header_name, api_key)


\* Mutant of _get_next_id: the counter is not advanced.
_get_next_id_NotAdvanced(n) == [id |-> n, next |-> n]

\* MCPClient._get_next_id: the id returned for counter value n, and the counter after
_get_next_id(n) == [id |-> n, next |-> n + 1]

\* The headers argument of MCPClient(...): left out (None) or a mapping.
NoHeaders == [given |-> FALSE, dict |-> EmptyDict]

HeadersArg(d) == [given |-> TRUE, dict |-> d]

\* mcp_client.py:35-39: self.headers = headers or {}.  A mapping with entries
\* is kept as the object it is, shared with the caller; None and an empty
\* mapping are falsy and give the client a new empty mapping.  passed is the
\* content of the caller's mapping at the call, mapping its content now.
Construct(arg) ==
    LET truthy == arg.given /\ arg.dict # EmptyDict
    IN  [url |-> "https://rube.app/mcp", auth |-> None,
         given |-> arg.given, passed |-> arg.dict, mapping |-> arg.dict,
         shared |-> truthy,
         headers |-> IF truthy THEN arg.dict ELSE EmptyDict]

\* A header name without an entry.
NoEntry == <<"<absent>">>

Entry(h, name) == IF name \in DOMAIN h THEN h[name] ELSE NoEntry

\* mcp_client.py:62 / 74: self.headers = self.headers or {}.  The mapping
\* shared with the caller stays the client's own as long as it has entries.
StillShared == ctor.shared /\ headers # EmptyDict

\* mcp_client.py:62-63 / 74-75 as the transport sessions see it.  Every
\* session was handed self.headers itself (176-180, 378-382).  A mapping with
\* entries is written in place, so each session that holds it holds the new
\* entries; an empty mapping is replaced by a new one ("or {}"), and the
\* sessions that were handed the empty one keep it, no longer the client's.
HeadersWritten(ss, new) ==
    [i \in 1..Len(ss) |->
        IF ss[i].same /\ headers # EmptyDict
        THEN [ss[i] EXCEPT !.held = new]
        ELSE [ss[i] EXCEPT !.same = FALSE]]

\* mcp_client.py:55-64: MCPClient.set_bearer_token(token) writes one entry of
\* self.headers, which is the caller's mapping when the two are shared.
SetBearerToken(token) ==
    /\ headers' = set_bearer_token(headers, token)
    /\ sessions' = HeadersWritten(sessions, set_bearer_token(headers, token))
    /\ ctor' = [ctor EXCEPT !.shared = StillShared,
                            !.mapping = IF StillShared
                                        THEN set_bearer_token(headers, token)
                                        ELSE @]

\* mcp_client.py:66-76: MCPClient.set_api_key(api_key, header_name).
SetApiKey(api_key, header_name) ==
    /\ headers' = set_api_key(headers, api_key, header_name)
    /\ sessions' = HeadersWritten(sessions, set_api_key(headers, api_key, header_name))
    /\ ctor' = [ctor EXCEPT !.shared = StillShared,
                            !.mapping = IF StillShared
                                        THEN set_api_key(headers, api_key, header_name)
                                        ELSE @]

(***************************************************************************)
(* The coroutine of one introspect_tools / call_tool call.                 *)
(***************************************************************************)
IdleTask ==
    [pc |-> "idle", kind |-> None, tool |-> None, sess |-> 0, reqId |-> 0,
     initReply |-> NoReply, toolReply |-> NoReply,
     outcome |-> "none", value |-> NoValue, error |-> NoError]

StartedTask(kind, tool) == [IdleTask EXCEPT !.pc = "open", !.kind = kind, !.tool = tool]

\* mcp_client.py:176-180 / 378-382: streamablehttp_client(self.url,
\* headers=self.headers, auth=self.auth).  The session is handed the client's
\* own mapping, not a copy: headers are the entries the mapping has at this
\* call, held the entries that same object has now, and same tells whether
\* the object is still self.headers.
NewSession(h, kind) ==
    [headers |-> h, held |-> h, same |-> TRUE, kind |-> kind, sent |-> <<>>,
     open |-> TRUE]

Send(ss, i, envelope) == [ss EXCEPT ![i].sent = Append(@, envelope)]

\* Mutant of Close: the streams are used without the async with block, so
\* leaving the operation closes nothing.
Close_LeftOpen(ss, i) == ss

\* mcp_client.py:176-180 / 378-382: the async with block is left.
Close(ss, i) == [ss EXCEPT ![i].open = FALSE]

\* The coroutine ends by raising e: the async with block is left and the
\* except clause (mcp_client.py:265-353, 477-512) logs and re-raises.
Raised(tk, e) == [tk EXCEPT !.pc = "done", !.outcome = "raise", !.error = e]

\* Mutant of StreamOpen: the counter of request ids belongs to the session
\* and starts again at 1 with every session.
StreamOpen_CounterPerSession(t) ==
    /\ task[t].pc = "open"
    /\ \/ LET n == _get_next_id(1)
          IN  /\ sessions' = Append(sessions, NewSession(headers, task[t].kind))
              /\ next_request_id' = n.next
              /\ task' = [task EXCEPT ![t].pc = "init_send",
                                      ![t].sess = Len(sessions) + 1,
                                      ![t].reqId = n.id]
       \/ \E e \in AbortErrors :
              /\ task' = [task EXCEPT ![t] = Raised(@, e)]
              /\ UNCHANGED <<sessions, next_request_id>>
    /\ UNCHANGED <<driver, callerVars, exchange, headers, session_id, opsStarted, mainVars>>

\* mcp_client.py:176-180 / 378-382, then 94-115 up to the first await.
StreamOpen(t) ==
    /\ task[t].pc = "open"
    /\ \/ LET n == _get_next_id(next_request_id)
          IN  /\ sessions' = Append(sessions, NewSession(headers, task[t].kind))
              /\ next_request_id' = n.next
              /\ task' = [task EXCEPT ![t].pc = "init_send",
                                      ![t].sess = Len(sessions) + 1,
                                      ![t].reqId = n.id]
       \/ \E e \in AbortErrors :
              /\ task' = [task EXCEPT ![t] = Raised(@, e)]
              /\ UNCHANGED <<sessions, next_request_id>>
    /\ UNCHANGED <<driver, callerVars, exchange, headers, session_id, opsStarted, mainVars>>

\* mcp_client.py:115: write_stream.send(init_message) completes.
InitializeSend(t) ==
    /\ task[t].pc = "init_send"
    /\ sessions' = Send(sessions, task[t].sess, InitializeRequest(task[t].reqId))
    /\ task' = [task EXCEPT ![t].pc = "init_recv"]
    /\ UNCHANGED <<driver, callerVars, exchange, clientVars, opsStarted, mainVars>>

\* Mutant of InitializeReceive: the receive is given a time limit, after
\* which the operation ends with an error of its own and without a reply.
InitializeReceive_TimesOut(t) ==
    /\ task[t].pc = "init_recv"
    /\ \/ \E r \in Received(task[t].reqId, InitResults), sid \in SessionIds :
            IF r.kind = "Exception"
            THEN /\ task' = [task EXCEPT
                                ![t] = Raised([@ EXCEPT !.initReply = r], r.error)]
                 /\ sessions' = Close(sessions, task[t].sess)
                 /\ UNCHANGED session_id
            ELSE /\ session_id' = sid
                 /\ task' = [task EXCEPT ![t].pc = "notif_send", ![t].initReply = r]
                 /\ UNCHANGED sessions
       \/ /\ task' = [task EXCEPT
                         ![t] = Raised(@, [type |-> "TimeoutError", status |-> 0,
                                           group |-> FALSE])]
          /\ sessions' = Close(sessions, task[t].sess)
          /\ UNCHANGED session_id
    /\ UNCHANGED <<driver, callerVars, exchange, headers, next_request_id, opsStarted, mainVars>>

\* Mutant of InitializeReceive: the session identifier is read from the
\* channel before the reply is looked at, also when it is an exception.
InitializeReceive_SessionIdFirst(t) ==
    /\ task[t].pc = "init_recv"
    /\ \E r \in Received(task[t].reqId, InitResults), sid \in SessionIds :
        /\ session_id' = sid
        /\ IF r.kind = "Exception"
           THEN /\ task' = [task EXCEPT ![t] = Raised([@ EXCEPT !.initReply = r], r.error)]
                /\ sessions' = Close(sessions, task[t].sess)
           ELSE /\ task' = [task EXCEPT ![t].pc = "notif_send", ![t].initReply = r]
                /\ UNCHANGED sessions
    /\ UNCHANGED <<driver, callerVars, exchange, headers, next_request_id, opsStarted, mainVars>>

\* mcp_client.py:118-155: read_stream.receive() yields the reply to initialize.
InitializeReceive(t) ==
    /\ task[t].pc = "init_recv"
    /\ \E r \in Received(task[t].reqId, InitResults), sid \in SessionIds :
        IF r.kind = "Exception"
        THEN /\ task' = [task EXCEPT ![t] = Raised([@ EXCEPT !.initReply = r], r.error)]
             /\ sessions' = Close(sessions, task[t].sess)
             /\ UNCHANGED session_id
        ELSE /\ session_id' = sid
             /\ task' = [task EXCEPT ![t].pc = "notif_send", ![t].initReply = r]
             /\ UNCHANGED sessions
    /\ UNCHANGED <<driver, callerVars, exchange, headers, next_request_id, opsStarted, mainVars>>

\* Mutant of InitializedNotificationSend: the notification is not sent
\* before the tool request is built.
InitializedNotificationSkipped(t) ==
    /\ task[t].pc = "notif_send"
    /\ LET n == _get_next_id(next_request_id)
       IN  /\ next_request_id' = n.next
           /\ task' = [task EXCEPT ![t].pc = "req_send", ![t].reqId = n.id]
    /\ UNCHANGED <<driver, callerVars, exchange, headers, session_id, sessions, opsStarted, mainVars>>

\* Mutant of InitializedNotificationSend: the session identifier is read from
\* the channel only after the notification has been sent.
InitializedNotificationSend_ThenSessionId(t) ==
    /\ task[t].pc = "notif_send"
    /\ LET n == _get_next_id(next_request_id)
       IN  /\ sessions' = Send(sessions, task[t].sess, InitializedNotification)
           /\ next_request_id' = n.next
           /\ task' = [task EXCEPT ![t].pc = "req_send", ![t].reqId = n.id]
    /\ \E sid \in SessionIds : session_id' = sid
    /\ UNCHANGED <<driver, callerVars, exchange, headers, opsStarted, mainVars>>

\* Mutant of InitializedNotificationSend: the id of the tool request is worked
\* out from the counter as the operation read it before its handshake, and
\* the counter is written back from that value.
InitializedNotificationSend_StaleCounter(t) ==
    /\ task[t].pc = "notif_send"
    /\ LET n == _get_next_id(task[t].reqId + 1)
       IN  /\ sessions' = Send(sessions, task[t].sess, InitializedNotification)
           /\ next_request_id' = n.next
           /\ task' = [task EXCEPT ![t].pc = "req_send", ![t].reqId = n.id]
    /\ UNCHANGED <<driver, callerVars, exchange, headers, session_id, opsStarted, mainVars>>

\* mcp_client.py:160: write_stream.send(initialized_notification) completes;
\* then 185-197 / 387-402 up to the next await.
InitializedNotificationSend(t) ==
    /\ task[t].pc = "notif_send"
    /\ LET n == _get_next_id(next_request_id)
       IN  /\ sessions' = Send(sessions, task[t].sess, InitializedNotification)
           /\ next_request_id' = n.next
           /\ task' = [task EXCEPT ![t].pc = "req_send", ![t].reqId = n.id]
    /\ UNCHANGED <<driver, callerVars, exchange, headers, session_id, opsStarted, mainVars>>

\* mcp_client.py:197 / 402: write_stream.send(request) completes.
RequestSend(t) ==
    /\ task[t].pc = "req_send"
    /\ sessions' = Send(sessions, task[t].sess,
                        IF task[t].kind = "list"
                        THEN ListToolsRequest(task[t].reqId)
                        ELSE ToolCallRequest(task[t].reqId, task[t].tool))
    /\ task' = [task EXCEPT ![t].pc = "req_recv"]
    /\ UNCHANGED <<driver, callerVars, exchange, clientVars, opsStarted, mainVars>>

\* The elements a Python for loop over the value visits.
Elements(v) ==
    CASE v.t = "list" -> {v.items[i] : i \in 1..Len(v.items)}
      [] v.t = "str"  -> IF v.s = "" THEN {} ELSE {JStr("c")}
      [] v.t = "dict" -> {JStr(k) : k \in DOMAIN v.fields}
      [] OTHER        -> {}

\* Mutant of ListOutcome: the tools entry is read without a default, so a
\* result without the key fails at len(None).
ListOutcome_MissingKeyRaises(r) ==
    IF r.kind = "Exception"
    THEN [outcome |-> "raise", value |-> NoValue, error |-> r.error]
    ELSE IF r.kind = "JSONRPCResponse" /\ DOMAIN r.result # {}
         THEN IF "tools" \in DOMAIN r.result
              THEN [outcome |-> "return", value |-> r.result.tools, error |-> NoError]
              ELSE [outcome |-> "raise", value |-> NoValue, error |-> TypeError]
         ELSE [outcome |-> "return", value |-> JList(<<>>), error |-> NoError]

\* Mutant of ListOutcome: an Exception on the read stream is logged and an
\* empty list returned.
ListOutcome_SwallowsException(r) ==
    IF /\ r.kind = "JSONRPCResponse"
       /\ DOMAIN r.result # {}
       /\ "tools" \in DOMAIN r.result
    THEN LET tools == r.result.tools
         IN  IF tools.t \in {"int", "null"}
             THEN [outcome |-> "raise", value |-> NoValue, error |-> TypeError]
             ELSE IF \E x \in Elements(tools) : x.t # "dict"
                  THEN [outcome |-> "raise", value |-> NoValue,
                        error |-> AttributeError]
                  ELSE [outcome |-> "return", value |-> tools, error |-> NoError]
    ELSE [outcome |-> "return", value |-> JList(<<>>), error |-> NoError]

\* Mutant of ListOutcome: the last descriptor of a list is dropped.
ListOutcome_DropsLast(r) ==
    IF r.kind = "Exception"
    THEN [outcome |-> "raise", value |-> NoValue, error |-> r.error]
    ELSE IF /\ r.kind = "JSONRPCResponse"
            /\ DOMAIN r.result # {}
            /\ "tools" \in DOMAIN r.result
         THEN LET tools == r.result.tools
              IN  IF tools.t \in {"int", "null"}
                  THEN [outcome |-> "raise", value |-> NoValue, error |-> TypeError]
                  ELSE IF \E x \in Elements(tools) : x.t # "dict"
                       THEN [outcome |-> "raise", value |-> NoValue,
                             error |-> AttributeError]
                       ELSE IF tools.t = "list" /\ tools.items # <<>>
                            THEN [outcome |-> "return",
                                  value |-> JList(SubSeq(tools.items, 1,
                                                         Len(tools.items) - 1)),
                                  error |-> NoError]
                            ELSE [outcome |-> "return", value |-> tools,
                                  error |-> NoError]
         ELSE [outcome |-> "return", value |-> JList(<<>>), error |-> NoError]

\* mcp_client.py:204-263: what introspect_tools does with the reply to tools/list.
ListOutcome(r) ==
    IF r.kind = "Exception"
    THEN [outcome |-> "raise", value |-> NoValue, error |-> r.error]
    ELSE IF /\ r.kind = "JSONRPCResponse"
            /\ DOMAIN r.result # {}
            /\ "tools" \in DOMAIN r.result
         THEN LET tools == r.result.tools
              IN  IF tools.t \in {"int", "null"}
                  THEN [outcome |-> "raise", value |-> NoValue, error |-> TypeError]
                  ELSE IF \E x \in Elements(tools) : x.t # "dict"
                       THEN [outcome |-> "raise", value |-> NoValue,
                             error |-> AttributeError]
                       ELSE [outcome |-> "return", value |-> tools, error |-> NoError]
         ELSE [outcome |-> "return", value |-> JList(<<>>), error |-> NoError]

\* Mutant of CallOutcome: a reply that is no Response yields an empty result,
\* as introspect_tools does with its list.
CallOutcome_EmptyOnError(r) ==
    IF r.kind = "Exception"
    THEN [outcome |-> "raise", value |-> NoValue, error |-> r.error]
    ELSE IF r.kind = "JSONRPCResponse"
         THEN [outcome |-> "return", value |-> JDict(r.result), error |-> NoError]
         ELSE [outcome |-> "return", value |-> JDict(EmptyDict), error |-> NoError]

\* mcp_client.py:409-475: what call_tool does with the reply to tools/call.
CallOutcome(r) ==
    IF r.kind = "Exception"
    THEN [outcome |-> "raise", value |-> NoValue, error |-> r.error]
    ELSE IF r.kind = "JSONRPCResponse"
         THEN [outcome |-> "return", value |-> JDict(r.result), error |-> NoError]
         ELSE [outcome |-> "raise", value |-> NoValue, error |-> UnexpectedFormat]

\* mcp_client.py:201-263 / 406-475: read_stream.receive() yields the reply to
\* the tool request; the async with block is left.
ResponseReceive(t) ==
    /\ task[t].pc = "req_recv"
    /\ \E r \in Received(task[t].reqId,
                         IF task[t].kind = "list" THEN ListResults ELSE CallResults) :
        LET o == IF task[t].kind = "list" THEN ListOutcome(r) ELSE CallOutcome(r)
        IN  /\ sessions' = Close(sessions, task[t].sess)
            /\ task' = [task EXCEPT ![t].pc = "done", ![t].toolReply = r,
                                    ![t].outcome = o.outcome,
                                    ![t].value = o.value, ![t].error = o.error]
    /\ UNCHANGED <<driver, callerVars, exchange, clientVars, opsStarted, mainVars>>

\* The transport's task group fails while the coroutine is suspended in a
\* send or a receive: the block is cancelled and the group's error leaves
\* the async with statement.
TransportAbort(t) ==
    /\ task[t].pc \in {"init_send", "init_recv", "notif_send", "req_send", "req_recv"}
    /\ \E e \in AbortErrors :
        /\ task' = [task EXCEPT ![t] = Raised(@, e)]
        /\ sessions' = Close(sessions, task[t].sess)
    /\ UNCHANGED <<driver, callerVars, exchange, clientVars, opsStarted, mainVars>>

(***************************************************************************)
(* OAuth2Client.interactive_auth_flow and main.authenticate_with_oauth.    *)
(***************************************************************************)
NoToken == [some |-> FALSE, v |-> <<>>]

Token(v) == [some |-> TRUE, v |-> v]

\* Python truthiness of an Optional[str]
Truthy(tok) == tok.some /\ tok.v # <<>>

\* oauth_client.py:131: the number of characters of a token preview.
PreviewLen == 20

\* Nothing has been displayed about a token.
NoDisplay == [preview |-> FALSE, text |-> <<>>]

\* Mutant of TokenDisplay: every token is displayed whole.
TokenDisplay_AlwaysWhole(token) == [preview |-> FALSE, text |-> token]

\* oauth_client.py:131: the line displayed about an accepted token,
\* "Token preview: <first 20 characters>..." for a token of more than 20
\* characters and "Token: <token>" otherwise.
TokenDisplay(token) ==
    IF Len(token) > PreviewLen
    THEN [preview |-> TRUE, text |-> SubSeq(token, 1, PreviewLen)]
    ELSE [preview |-> FALSE, text |-> token]

\* Mutant of PasteResult: the prefix is removed from the pasted text before
\* it is trimmed.
PasteResult_PrefixBeforeStrip(pasted) ==
    IF pasted # <<>> /\ Strip(pasted) # <<>>
    THEN Token(IF StartsWith(Lower(pasted), Lower(BearerPrefix))
               THEN Strip(DropFirst(pasted, 7))
               ELSE Strip(pasted))
    ELSE NoToken

\* Mutant of PasteResult: the pasted text is returned after trimming, with
\* its prefix left in place.
PasteResult_PrefixKept(pasted) ==
    IF pasted # <<>> /\ Strip(pasted) # <<>>
    THEN Token(Strip(pasted))
    ELSE NoToken

\* oauth_client.py:124-141: the value returned for the pasted text.
PasteResult(pasted) ==
    IF pasted # <<>> /\ Strip(pasted) # <<>>
    THEN LET stripped == Strip(pasted)
         IN  Token(IF StartsWith(Lower(stripped), Lower(BearerPrefix))
                   THEN DropFirst(stripped, 7)
                   ELSE stripped)
    ELSE NoToken

\* main.py:83-88: authenticate_with_oauth hands on a truthy token only.
AuthenticateResult(tok) == IF Truthy(tok) THEN tok ELSE NoToken

\* What the user can type at the e-mail prompt.
Emails == { <<>>, <<" ">>, <<"a", "@", "b">> }

\* A token of one character more than a preview holds.
LongToken == [i \in 1..(PreviewLen + 1) |-> "x"]

\* What the user can paste at the token prompt.
Pasted ==
    { <<>>,
      <<" ", " ">>,
      <<"t", "o", "k">>,
      <<" ", "t", "o", "k", " ">>,
      <<"B", "e", "a", "r", "e", "r", " ", "t", "o", "k">>,
      <<"b", "e", "a", "r", "e", "r", " ", " ", "t", "o", "k">>,
      <<"B", "E", "A", "R", "E", "R", " ", "x">>,
      <<"B", "e", "a", "r", "e", "r", " ">>,
      LongToken }

\* Nothing has been read at the token prompt.
NoPaste == [given |-> FALSE, text |-> <<>>]

IdleOAuth == [pc |-> "idle", email |-> <<>>, browser |-> "none",
              urlPrinted |-> FALSE, prompts |-> <<>>, pasted |-> NoPaste,
              returned |-> NoToken, shown |-> NoDisplay, token |-> NoToken]

\* authenticate_with_oauth or interactive_auth_flow returns tok to its caller.
OAuthFinished(tok) ==
    oauth' = [oauth EXCEPT !.pc = "finished", !.token = AuthenticateResult(tok)]

\* An exception raised in authenticate_with_oauth itself is caught nowhere:
\* it leaves query_mcp_server, whose except clause is already running.
OAuthEscapes ==
    /\ oauth' = [oauth EXCEPT !.pc = "raised"]
    /\ mpc' = "raised"

\* main.py:59-64: the proceed prompt (choices y / n).
OAuthProceed ==
    /\ oauth.pc = "proceed"
    /\ \/ \E answer \in {"y", "n"} :
            IF answer # "y"
            THEN OAuthFinished(NoToken) /\ UNCHANGED mpc
            ELSE oauth' = [oauth EXCEPT !.pc = "email"] /\ UNCHANGED mpc
       \/ OAuthEscapes
    /\ UNCHANGED <<driver, callerVars, exchange, clientVars, sessions, task, opsStarted,
                   firstError, retryError, oauthCalls, panels>>

\* main.py:67-81 and oauth_client.py:71-85, up to the launch of the browser.
OAuthEmail ==
    /\ oauth.pc = "email"
    /\ \/ \E email \in Emails :
            IF Strip(email) = <<>>
            THEN OAuthFinished(NoToken) /\ UNCHANGED mpc
            ELSE oauth' = [oauth EXCEPT !.pc = "browser", !.email = email]
                 /\ UNCHANGED mpc
       \/ OAuthEscapes
    /\ UNCHANGED <<driver, callerVars, exchange, clientVars, sessions, task, opsStarted,
                   firstError, retryError, oauthCalls, panels>>

\* Mutant of OAuthBrowser: the completion prompt is left out and the token
\* prompt follows the launch of the browser.
OAuthBrowser_NoCompletionPrompt ==
    /\ oauth.pc = "browser"
    /\ \E result \in {"opened", "CalledProcessError", "FileNotFoundError"} :
        IF result = "FileNotFoundError"
        THEN oauth' = [oauth EXCEPT !.pc = "finished", !.browser = result,
                                    !.token = NoToken]
        ELSE oauth' = [oauth EXCEPT !.pc = "token", !.browser = result,
                                    !.urlPrinted = (result = "CalledProcessError"),
                                    !.prompts = <<"token">>]
    /\ UNCHANGED <<driver, callerVars, exchange, clientVars, sessions, task, opsStarted, mpc,
                   firstError, retryError, oauthCalls, panels>>

\* oauth_client.py:84-101 and 143-145: subprocess.run(["open", url], check=True),
\* then the instructions up to the completion prompt.
OAuthBrowser ==
    /\ oauth.pc = "browser"
    /\ \E result \in {"opened", "CalledProcessError", "FileNotFoundError"} :
        IF result = "FileNotFoundError"
        THEN oauth' = [oauth EXCEPT !.pc = "finished", !.browser = result,
                                    !.token = NoToken]
        ELSE oauth' = [oauth EXCEPT !.pc = "complete", !.browser = result,
                                    !.urlPrinted = (result = "CalledProcessError"),
                                    !.prompts = <<"complete">>]
    /\ UNCHANGED <<driver, callerVars, exchange, clientVars, sessions, task, opsStarted, mpc,
                   firstError, retryError, oauthCalls, panels>>

\* oauth_client.py:101-122: the completion prompt is answered and the token
\* prompt shown; an EOFError is caught at 143.
OAuthComplete ==
    /\ oauth.pc = "complete"
    /\ \/ oauth' = [oauth EXCEPT !.pc = "token", !.prompts = Append(@, "token")]
       \/ OAuthFinished(NoToken)
    /\ UNCHANGED <<driver, callerVars, exchange, clientVars, sessions, task, opsStarted, mpc,
                   firstError, retryError, oauthCalls, panels>>

\* Mutant of OAuthToken: the pasted text is taken for an authorization code
\* and sent to the token endpoint.
OAuthToken_ExchangesCode ==
    /\ oauth.pc = "token"
    /\ \/ \E pasted \in Pasted :
            /\ oauth' = [oauth EXCEPT
                            !.pc = "finished",
                            !.pasted = [given |-> TRUE, text |-> pasted],
                            !.returned = PasteResult(pasted),
                            !.shown = IF PasteResult(pasted).some
                                      THEN TokenDisplay(PasteResult(pasted).v)
                                      ELSE NoDisplay,
                            !.token = AuthenticateResult(PasteResult(pasted))]
            /\ exchange' = [exchange EXCEPT !.calls = @ + 1, !.posts = @ + 1]
       \/ OAuthFinished(NoToken) /\ UNCHANGED exchange
    /\ UNCHANGED <<driver, callerVars, clientVars, sessions, task, opsStarted, mpc,
                   firstError, retryError, oauthCalls, panels>>

\* oauth_client.py:122-145: the token prompt, the display of the token and
\* the value returned; an EOFError is caught at 143.
OAuthToken ==
    /\ oauth.pc = "token"
    /\ \/ \E pasted \in Pasted :
            oauth' = [oauth EXCEPT
                         !.pc = "finished",
                         !.pasted = [given |-> TRUE, text |-> pasted],
                         !.returned = PasteResult(pasted),
                         !.shown = IF PasteResult(pasted).some
                                   THEN TokenDisplay(PasteResult(pasted).v)
                                   ELSE NoDisplay,
                         !.token = AuthenticateResult(PasteResult(pasted))]
       \/ OAuthFinished(NoToken)
    /\ UNCHANGED <<driver, callerVars, exchange, clientVars, sessions, task, opsStarted, mpc,
                   firstError, retryError, oauthCalls, panels>>

(***************************************************************************)
(* OAuth2Client.exchange_code_for_token.                                   *)
(***************************************************************************)
\* What client.post can come back with: an exception of the connection, or a
\* response with a status and a body.
NoPostOutcome == [kind |-> "none", status |-> 0, body |-> "none"]

PostOutcomes ==
    {[kind |-> "ConnectError", status |-> 0, body |-> "none"]}
    \cup {[kind |-> "response", status |-> st, body |-> b] :
             st \in {200, 201, 302, 400, 401, 500},
             b \in {"token", "null", "invalid"}}

\* httpx Response.raise_for_status: raises unless the status is 2xx.
RaisesForStatus(st) == ~(st >= 200 /\ st < 300)

\* Mutant of ExchangeResult: only connection errors are caught, so the
\* HTTPStatusError of raise_for_status and the decoding error leave the call.
ExchangeResult_OnlyConnectCaught(o) ==
    IF o.kind = "ConnectError"
    THEN [outcome |-> "return", value |-> None]
    ELSE IF RaisesForStatus(o.status) \/ o.body = "invalid"
         THEN [outcome |-> "raise", value |-> None]
         ELSE [outcome |-> "return",
               value |-> IF o.body = "null" THEN None ELSE o.body]

\* oauth_client.py:55-65: the value exchange_code_for_token ends with.
ExchangeResult(o) ==
    IF o.kind = "ConnectError"
    THEN [outcome |-> "return", value |-> None]
    ELSE IF RaisesForStatus(o.status)
         THEN [outcome |-> "return", value |-> None]
         ELSE IF o.body = "invalid"
              THEN [outcome |-> "return", value |-> None]
              ELSE [outcome |-> "return",
                    value |-> IF o.body = "null" THEN None ELSE o.body]

IdleExchange == [pc |-> "idle", calls |-> 0, posts |-> 0,
                 response |-> NoPostOutcome, outcome |-> "none", value |-> None]

\* oauth_client.py:42-61: a call builds the form and starts its POST.
ExchangePost ==
    /\ driver = "exchange"
    /\ exchange.pc \in {"idle", "done"}
    /\ exchange.calls < MaxOps
    /\ exchange' = [exchange EXCEPT !.pc = "posting", !.calls = @ + 1,
                                    !.posts = @ + 1,
                                    !.response = NoPostOutcome,
                                    !.outcome = "none", !.value = None]
    /\ UNCHANGED <<driver, callerVars, clientVars, sessions, task, opsStarted, mainVars>>

\* oauth_client.py:57-65: client.post comes back and the call ends.
ExchangeReturn ==
    /\ driver = "exchange"
    /\ exchange.pc = "posting"
    /\ \E o \in PostOutcomes :
          LET r == ExchangeResult(o)
          IN  exchange' = [exchange EXCEPT !.pc = "done", !.response = o,
                                          !.outcome = r.outcome,
                                          !.value = r.value]
    /\ UNCHANGED <<driver, callerVars, clientVars, sessions, task, opsStarted, mainVars>>

(***************************************************************************)
(* main.query_mcp_server.                                                  *)
(***************************************************************************)
ToolsPanel == [title |-> "Available Tools", body |-> "tools"]

AuthenticatedToolsPanel == [title |-> "Authenticated Tools", body |-> "tools"]

AuthenticatedFailedPanel ==
    [title |-> "Authenticated MCP Connection Failed", body |-> "Authentication failed"]

AuthRequiredPanel ==
    [title |-> "MCP Connection Error", body |-> "Authentication Required"]

McpErrorPanel == [title |-> "MCP Connection Error", body |-> "MCP Error"]

\* main.py:96-100: the client is created and the first attempt starts.
QueryStart ==
    /\ driver = "query"
    /\ mpc = "start"
    /\ task' = [task EXCEPT !["a"] = StartedTask("list", None)]
    /\ mpc' = "first_wait"
    /\ UNCHANGED <<driver, callerVars, exchange, clientVars, sessions, opsStarted,
                   firstError, retryError, oauth, oauthCalls, panels>>

\* main.py:102-122: the first attempt returned.
QueryFirstReturn ==
    /\ mpc = "first_wait"
    /\ task["a"].pc = "done" /\ task["a"].outcome = "return"
    /\ panels' = Append(panels, ToolsPanel)
    /\ mpc' = "done"
    /\ UNCHANGED <<driver, callerVars, exchange, clientVars, sessions, task, opsStarted,
                   firstError, retryError, oauth, oauthCalls>>

\* main.py:124-136 and 193-202: the first attempt raised.
QueryFirstExcept ==
    /\ mpc = "first_wait"
    /\ task["a"].pc = "done" /\ task["a"].outcome = "raise"
    /\ firstError' = task["a"].error
    /\ IF IsAuthFailure(task["a"].error)
       THEN /\ oauthCalls' = oauthCalls + 1
            /\ oauth' = [IdleOAuth EXCEPT !.pc = "proceed"]
            /\ mpc' = "oauth"
            /\ UNCHANGED panels
       ELSE /\ panels' = Append(panels, McpErrorPanel)
            /\ mpc' = "done"
            /\ UNCHANGED <<oauth, oauthCalls>>
    /\ UNCHANGED <<driver, callerVars, exchange, clientVars, sessions, task, opsStarted, retryError>>

\* Mutant of QueryAfterOAuth: the retry is made without attaching the token.
QueryAfterOAuth_TokenNotAttached ==
    /\ mpc = "oauth"
    /\ oauth.pc = "finished"
    /\ IF Truthy(oauth.token)
       THEN /\ task' = [task EXCEPT !["a"] = StartedTask("list", None)]
            /\ mpc' = "retry_wait"
            /\ UNCHANGED <<panels, headers, ctor>>
       ELSE /\ panels' = Append(panels, AuthRequiredPanel)
            /\ mpc' = "done"
            /\ UNCHANGED <<headers, ctor, task>>
    /\ UNCHANGED <<driver, lastSet, exchange, session_id, next_request_id, sessions, opsStarted,
                   firstError, retryError, oauth, oauthCalls>>

\* Mutant of QueryAfterOAuth: the retry is made whatever the flow returned.
QueryAfterOAuth_AlwaysRetry ==
    /\ mpc = "oauth"
    /\ oauth.pc = "finished"
    /\ SetBearerToken(oauth.token.v)
    /\ task' = [task EXCEPT !["a"] = StartedTask("list", None)]
    /\ mpc' = "retry_wait"
    /\ UNCHANGED <<driver, lastSet, exchange, session_id, next_request_id, opsStarted,
                   firstError, retryError, oauth, oauthCalls, panels>>

\* main.py:138-144 and 184-202: authenticate_with_oauth returned.
QueryAfterOAuth ==
    /\ mpc = "oauth"
    /\ oauth.pc = "finished"
    /\ IF Truthy(oauth.token)
       THEN /\ SetBearerToken(oauth.token.v)
            /\ task' = [task EXCEPT !["a"] = StartedTask("list", None)]
            /\ mpc' = "retry_wait"
            /\ UNCHANGED panels
       ELSE /\ panels' = Append(panels, AuthRequiredPanel)
            /\ mpc' = "done"
            /\ UNCHANGED <<headers, ctor, sessions, task>>
    /\ UNCHANGED <<driver, lastSet, exchange, session_id, next_request_id, opsStarted,
                   firstError, retryError, oauth, oauthCalls>>

\* main.py:146-166: the retry returned.
QueryRetryReturn ==
    /\ mpc = "retry_wait"
    /\ task["a"].pc = "done" /\ task["a"].outcome = "return"
    /\ panels' = Append(panels, AuthenticatedToolsPanel)
    /\ mpc' = "done"
    /\ UNCHANGED <<driver, callerVars, exchange, clientVars, sessions, task, opsStarted,
                   firstError, retryError, oauth, oauthCalls>>

\* Mutant of QueryRetryExcept: a retry that fails on authorization starts
\* the OAuth flow again.
QueryRetryExcept_Again ==
    /\ mpc = "retry_wait"
    /\ task["a"].pc = "done" /\ task["a"].outcome = "raise"
    /\ retryError' = task["a"].error
    /\ IF IsAuthFailure(task["a"].error) /\ oauthCalls < 2
       THEN /\ oauthCalls' = oauthCalls + 1
            /\ oauth' = [IdleOAuth EXCEPT !.pc = "proceed"]
            /\ mpc' = "oauth"
            /\ UNCHANGED panels
       ELSE /\ panels' = Append(panels, AuthenticatedFailedPanel)
            /\ mpc' = "done"
            /\ UNCHANGED <<oauth, oauthCalls>>
    /\ UNCHANGED <<driver, callerVars, exchange, clientVars, sessions, task, opsStarted, firstError>>

\* main.py:168-183: the retry raised.
QueryRetryExcept ==
    /\ mpc = "retry_wait"
    /\ task["a"].pc = "done" /\ task["a"].outcome = "raise"
    /\ retryError' = task["a"].error
    /\ panels' = Append(panels, AuthenticatedFailedPanel)
    /\ mpc' = "done"
    /\ UNCHANGED <<driver, callerVars, exchange, clientVars, sessions, task, opsStarted,
                   firstError, oauth, oauthCalls>>

(***************************************************************************)
(* A caller that uses one MCPClient directly: it sets credentials and      *)
(* awaits introspect_tools and call_tool, one call after the other.        *)
(***************************************************************************)
ToolNames == {"echo"}

CallerTokens == { <<"t", "1">> }

ApiKeys == { <<"k", "1">> }

ApiKeyHeaders == {"X-API-Key"}

CallerReady == driver = "caller" /\ task["a"].pc \in {"idle", "done"}

CallerInvoke ==
    /\ CallerReady
    /\ opsStarted < MaxOps
    /\ \/ task' = [task EXCEPT !["a"] = StartedTask("list", None)]
       \/ \E name \in ToolNames :
            task' = [task EXCEPT !["a"] = StartedTask("call", name)]
    /\ opsStarted' = opsStarted + 1
    /\ UNCHANGED <<driver, callerVars, exchange, clientVars, sessions, mainVars>>

\* The caller sets a credential between operations, while an operation is
\* still to follow.
CallerSetBearerToken ==
    /\ CallerReady
    /\ opsStarted < MaxOps
    /\ \E token \in CallerTokens : SetBearerToken(token)
    /\ UNCHANGED <<driver, lastSet, exchange, session_id, next_request_id, task,
                   opsStarted, mainVars>>

CallerSetApiKey ==
    /\ CallerReady
    /\ opsStarted < MaxOps
    /\ \E key \in ApiKeys, name \in ApiKeyHeaders : SetApiKey(key, name)
    /\ UNCHANGED <<driver, lastSet, exchange, session_id, next_request_id, task,
                   opsStarted, mainVars>>

(***************************************************************************)
(* A caller that constructs a client with a headers argument and calls the *)
(* two setters, keeping a note of its last call.                           *)
(***************************************************************************)
\* No setter has been called yet; old is the entry a call has written over.
NoSet == [op |-> "none", value |-> <<>>, name |-> None, old |-> NoEntry]

SetterTokens == { <<"t", "1">>, <<"t", "2">> }

SetterKeys == { <<"k", "1">>, <<"k", "2">> }

SetterHeaderNames == {"X-API-Key", "X-Custom"}

\* The headers arguments of the constructor: none, an empty mapping, and
\* mappings with one entry.
ConstructorArgs ==
    { NoHeaders,
      HeadersArg(EmptyDict),
      HeadersArg(DictSet(EmptyDict, "X-Trace", <<"1">>)),
      HeadersArg(DictSet(EmptyDict, "Authorization", <<"o", "l", "d">>)) }

\* mcp_client.py:55-64, called by the driver of the setters.
SettersSetBearerToken ==
    /\ driver = "setters"
    /\ \E token \in SetterTokens :
        /\ SetBearerToken(token)
        /\ lastSet' = [op |-> "set_bearer_token", value |-> token,
                       name |-> "Authorization",
                       old |-> Entry(headers, "Authorization")]
    /\ UNCHANGED <<driver, exchange, session_id, next_request_id, task,
                   opsStarted, mainVars>>

\* mcp_client.py:66-76, called by the driver of the setters.
SettersSetApiKey ==
    /\ driver = "setters"
    /\ \E key \in SetterKeys, name \in SetterHeaderNames :
        /\ SetApiKey(key, name)
        /\ lastSet' = [op |-> "set_api_key", value |-> key, name |-> name,
                       old |-> Entry(headers, name)]
    /\ UNCHANGED <<driver, exchange, session_id, next_request_id, task,
                   opsStarted, mainVars>>

\* mcp_client.py:35-39: a client as MCPClient(url, headers=...) constructs it.
InitSetters ==
    /\ driver = "setters"
    /\ \E arg \in ConstructorArgs :
        /\ ctor = Construct(arg)
        /\ headers = Construct(arg).headers
    /\ lastSet = NoSet
    /\ session_id = None
    /\ next_request_id = 1
    /\ sessions = <<>>
    /\ task = [t \in Tasks |-> IdleTask]
    /\ opsStarted = 0
    /\ mpc = "start"
    /\ firstError = NoError
    /\ retryError = NoError
    /\ oauth = IdleOAuth
    /\ oauthCalls = 0
    /\ panels = <<>>
    /\ exchange = IdleExchange

NextSetters ==
    \/ SettersSetBearerToken
    \/ SettersSetApiKey

SetterSpec == InitSetters /\ [][NextSetters]_vars

(***************************************************************************)
(* Two operations on one client, run concurrently: the coroutines take     *)
(* turns at their awaits.                                                  *)
(***************************************************************************)
ConcurrentTasks == {"a", "b"}

\* asyncio.gather of two operations on a new client: a tool listing or a
\* tool call, together with a tool listing.
InitConcurrent ==
    /\ driver = "gather"
    /\ headers = Construct(NoHeaders).headers
    /\ session_id = None
    /\ next_request_id = 1
    /\ sessions = <<>>
    /\ \/ task = [t \in ConcurrentTasks |-> StartedTask("list", None)]
       \/ \E name \in ToolNames :
             task = [t \in ConcurrentTasks |->
                        IF t = "a" THEN StartedTask("call", name)
                                   ELSE StartedTask("list", None)]
    /\ opsStarted = 2
    /\ mpc = "start"
    /\ firstError = NoError
    /\ retryError = NoError
    /\ oauth = IdleOAuth
    /\ oauthCalls = 0
    /\ panels = <<>>
    /\ exchange = IdleExchange
    /\ ctor = Construct(NoHeaders)
    /\ lastSet = NoSet

\* A step of either coroutine.
NextConcurrent ==
    \/ \E t \in ConcurrentTasks : StreamOpen(t)
    \/ \E t \in ConcurrentTasks : InitializeSend(t)
    \/ \E t \in ConcurrentTasks : InitializeReceive(t)
    \/ \E t \in ConcurrentTasks : InitializedNotificationSend(t)
    \/ \E t \in ConcurrentTasks : RequestSend(t)
    \/ \E t \in ConcurrentTasks : ResponseReceive(t)
    \/ \E t \in ConcurrentTasks : TransportAbort(t)

ConcurrentSpec == InitConcurrent /\ [][NextConcurrent]_vars

(***************************************************************************)
(* The specification.                                                      *)
(***************************************************************************)
\* mcp_client.py:35-39 and main.py:96: a client constructed without headers.
Init ==
    /\ driver \in {"query", "caller", "exchange"}
    /\ headers = Construct(NoHeaders).headers
    /\ session_id = None
    /\ next_request_id = 1
    /\ sessions = <<>>
    /\ task = [t \in Tasks |-> IdleTask]
    /\ opsStarted = 0
    /\ mpc = "start"
    /\ firstError = NoError
    /\ retryError = NoError
    /\ oauth = IdleOAuth
    /\ oauthCalls = 0
    /\ panels = <<>>
    /\ exchange = IdleExchange
    /\ ctor = Construct(NoHeaders)
    /\ lastSet = NoSet

Next ==
    \/ \E t \in Tasks : StreamOpen(t)
    \/ \E t \in Tasks : InitializeSend(t)
    \/ \E t \in Tasks : InitializeReceive(t)
    \/ \E t \in Tasks : InitializedNotificationSend(t)
    \/ \E t \in Tasks : RequestSend(t)
    \/ \E t \in Tasks : ResponseReceive(t)
    \/ \E t \in Tasks : TransportAbort(t)
    \/ QueryStart
    \/ QueryFirstReturn
    \/ QueryFirstExcept
    \/ OAuthProceed
    \/ OAuthEmail
    \/ OAuthBrowser
    \/ OAuthComplete
    \/ OAuthToken
    \/ QueryAfterOAuth
    \/ QueryRetryReturn
    \/ QueryRetryExcept
    \/ CallerInvoke
    \/ CallerSetBearerToken
    \/ CallerSetApiKey
    \/ ExchangePost
    \/ ExchangeReturn

Spec == Init /\ [][Next]_vars

(***************************************************************************)
(* One operation on a new client, run to its end.                          *)
(***************************************************************************)
InitOperation ==
    /\ driver = "caller"
    /\ headers = Construct(NoHeaders).headers
    /\ session_id = None
    /\ next_request_id = 1
    /\ sessions = <<>>
    /\ \/ task = [t \in Tasks |-> StartedTask("list", None)]
       \/ \E name \in ToolNames :
             task = [t \in Tasks |-> StartedTask("call", name)]
    /\ opsStarted = 1
    /\ mpc = "start"
    /\ firstError = NoError
    /\ retryError = NoError
    /\ oauth = IdleOAuth
    /\ oauthCalls = 0
    /\ panels = <<>>
    /\ exchange = IdleExchange
    /\ ctor = Construct(NoHeaders)
    /\ lastSet = NoSet

\* The steps of the operation's coroutine.
NextOperation ==
    \/ \E t \in Tasks : StreamOpen(t)
    \/ \E t \in Tasks : InitializeSend(t)
    \/ \E t \in Tasks : InitializeReceive(t)
    \/ \E t \in Tasks : InitializedNotificationSend(t)
    \/ \E t \in Tasks : RequestSend(t)
    \/ \E t \in Tasks : ResponseReceive(t)
    \/ \E t \in Tasks : TransportAbort(t)

\* The event loop runs the coroutine whenever it can go on: the open and the
\* sends complete, and every awaited receive yields a message or an error
\* in the end.
LiveSpec == InitOperation /\ [][NextOperation]_vars /\ WF_vars(NextOperation)

(***************************************************************************)
(* Derived notions used by the properties.                                 *)
(***************************************************************************)
\* The state of the authentication state machine that query_mcp_server is in.
AuthState ==
    CASE mpc \in {"start", "first_wait"} -> "Unauthenticated"
      [] mpc = "oauth"      -> "AuthorizationInFlight"
      [] mpc = "retry_wait" -> "Authenticated"
      [] mpc = "raised"     -> "Failed"
      [] OTHER -> IF panels = <<ToolsPanel>> THEN "Unauthenticated"
                  ELSE IF panels = <<AuthenticatedToolsPanel>> THEN "Authenticated"
                  ELSE "Failed"

Methods(i) == [k \in 1..Len(sessions[i].sent) |-> sessions[i].sent[k].method]

\* The positions of session i's envelopes that are requests (carry an id).
RequestPositions(i) ==
    {k \in 1..Len(sessions[i].sent) : "id" \in DOMAIN sessions[i].sent[k]}

Is401(e) == e.type = "HTTPStatusError" /\ e.status = 401

\* The first attempt of query_mcp_server failed with HTTP 401 in the handshake.
First401AtInitialize ==
    /\ driver = "query"
    /\ Is401(firstError)
    /\ Len(sessions) >= 1
    /\ Methods(1) = <<"initialize">>

(***************************************************************************)
(* Properties.                                                             *)
(***************************************************************************)
\* C1: in every transport session, each tools/list or tools/call request is
\* preceded on that session by the notifications/initialized notification.
C1_NoToolRequestBeforeInitialized ==
    \A i \in 1..Len(sessions) :
        \A k \in 1..Len(sessions[i].sent) :
            Methods(i)[k] \in ToolMethods =>
                \E j \in 1..(k - 1) : Methods(i)[j] = "notifications/initialized"

\* C1 witness: the tool request has been sent on the session of the retry.
C1_Witness ==
    /\ mpc = "retry_wait"
    /\ Len(sessions) = 2
    /\ Methods(2) = <<"initialize", "notifications/initialized", "tools/list">>

\* C2 as stated: a call_tool whose initialize was answered with HTTP 401 goes
\* through a reauthentication cycle (the OAuth flow runs once).
C2_CallToolReauthenticates ==
    \A t \in Tasks :
        ( /\ task[t].kind = "call"
          /\ task[t].pc = "done"
          /\ task[t].initReply.kind = "Exception"
          /\ Is401(task[t].initReply.error) )
        => oauthCalls = 1

\* C2 as amended: it is the tool listing of query_mcp_server that, after an
\* HTTP 401 in the first handshake and an OAuth flow that yields a token, is
\* retried exactly once with the token attached; it ends with the
\* authenticated tools panel when the retry returns and with the
\* authentication-failed panel when the retry gets 401 again.  call_tool
\* raises the 401 to its caller without any reauthentication.
C2_ListingReauthenticatesOnce ==
    /\ ( First401AtInitialize /\ mpc = "done" /\ Truthy(oauth.token) ) =>
          /\ oauthCalls = 1
          /\ Len(sessions) <= 2
          /\ Len(sessions) = 2 =>
                sessions[2].headers = set_bearer_token(EmptyDict, oauth.token.v)
          /\ task["a"].outcome = "return" =>
                Len(sessions) = 2 /\ panels = <<AuthenticatedToolsPanel>>
          /\ (task["a"].outcome = "raise" /\ Is401(task["a"].error)) =>
                panels = <<AuthenticatedFailedPanel>> /\ retryError = task["a"].error
    /\ \A t \in Tasks :
        ( /\ task[t].kind = "call"
          /\ task[t].pc = "done"
          /\ task[t].initReply.kind = "Exception"
          /\ Is401(task[t].initReply.error) )
        => /\ task[t].outcome = "raise"
           /\ task[t].error = task[t].initReply.error
           /\ oauthCalls = 0

\* C2 witness: 401 in the first handshake, a token, and the retry returned.
C2_Witness ==
    /\ First401AtInitialize
    /\ mpc = "done"
    /\ Truthy(oauth.token)
    /\ panels = <<AuthenticatedToolsPanel>>

\* C3: one operation runs the OAuth flow at most once and opens at most two
\* transport sessions; once the retry has failed the operation has ended
\* with the failure panel, and nothing follows.
C3_AtMostOneReauthentication ==
    /\ oauthCalls <= 1
    /\ driver = "query" => Len(sessions) <= 2
    /\ driver = "caller" => Len(sessions) <= opsStarted /\ oauthCalls = 0
    /\ retryError # NoError =>
          /\ mpc = "done"
          /\ AuthState = "Failed"
          /\ panels = <<AuthenticatedFailedPanel>>
          /\ oauthCalls = 1
          /\ task["a"].pc = "done"
          /\ oauth.pc = "finished"

\* C3 witness: the retry failed on authorization again.
C3_Witness ==
    /\ Is401(retryError)
    /\ Len(sessions) = 2

\* C4: when the OAuth flow yields no token the operation fails without a
\* second transport session, without a retry and without a bearer token.
C4_NoTokenNoRetry ==
    ( oauth.pc \in {"finished", "raised"} /\ ~Truthy(oauth.token) ) =>
        /\ Len(sessions) <= 1
        /\ "Authorization" \notin DOMAIN headers
        /\ mpc \in {"oauth", "done", "raised"}
        /\ task["a"].outcome = "raise" /\ task["a"].error = firstError
        /\ mpc = "done" => panels = <<AuthRequiredPanel>>
        /\ mpc # "oauth" => AuthState = "Failed"

\* C4 witness: the browser opened, no token came back, the operation failed.
C4_Witness ==
    /\ mpc = "done"
    /\ oauth.browser = "opened"
    /\ ~Truthy(oauth.token)
    /\ panels = <<AuthRequiredPanel>>

\* C5: a first attempt that fails for a reason other than HTTP 401 or 403
\* ends the operation without the OAuth flow and without a retry.
C5_OnlyAuthorizationTriggersOAuth ==
    ( firstError # NoError /\ firstError.status \notin {401, 403} ) =>
        oauthCalls = 0 /\ Len(sessions) <= 1

\* C6: a first attempt that fails with HTTP 401 or 403 moves the state
\* machine out of Unauthenticated into AuthorizationInFlight and runs the
\* OAuth flow exactly once.
C6_AuthorizationFailureStartsOAuth ==
    /\ firstError.status \in {401, 403} =>
          /\ oauthCalls = 1
          /\ AuthState # "Unauthenticated"
          /\ oauth.pc # "idle"
          /\ oauth.pc \notin {"finished", "raised"} => AuthState = "AuthorizationInFlight"
    /\ ( /\ mpc = "first_wait"
         /\ task["a"].outcome = "raise"
         /\ task["a"].error.status \in {401, 403} )
       => AuthState = "Unauthenticated" /\ oauthCalls = 0

\* C6 witness: the first attempt failed with 403 and the flow is running.
C6_Witness ==
    /\ firstError.status = 403
    /\ AuthState = "AuthorizationInFlight"
    /\ oauth.pc = "proceed"

\* C7 as stated: in every session the request ids increase strictly and the
\* initialize request carries id 1.
C7_EverySessionStartsAtOne ==
    \A i \in 1..Len(sessions) :
        /\ \A j, k \in RequestPositions(i) :
              j < k => sessions[i].sent[j].id < sessions[i].sent[k].id
        /\ Len(sessions[i].sent) >= 1 => sessions[i].sent[1].id = 1

\* C7 as amended: in every session the request ids increase strictly; only
\* the first session of a client starts at 1, the initialize request of each
\* later session carries an id greater than every id of the sessions before.
C7_IdsIncreaseAcrossSessions ==
    /\ \A i \in 1..Len(sessions) :
          \A j, k \in RequestPositions(i) :
              j < k => sessions[i].sent[j].id < sessions[i].sent[k].id
    /\ (Len(sessions) >= 1 /\ Len(sessions[1].sent) >= 1) =>
          sessions[1].sent[1].id = 1
    /\ \A i, m \in 1..Len(sessions) :
          (i < m /\ Len(sessions[m].sent) >= 1) =>
              /\ sessions[m].sent[1].id > 1
              /\ \A j \in RequestPositions(i) :
                    sessions[i].sent[j].id < sessions[m].sent[1].id

\* C7 witness: the session of the retry has sent both of its requests.
C7_Witness ==
    /\ driver = "query"
    /\ Len(sessions) = 2
    /\ Cardinality(RequestPositions(1)) = 2
    /\ Cardinality(RequestPositions(2)) = 2

\* C8: introspect_tools raises when the reply to tools/list is a JSON-RPC
\* ErrorResponse or a transport error; it returns no list then.
C8_ListToolsPropagatesFailure ==
    \A t \in Tasks :
        ( /\ task[t].kind = "list"
          /\ task[t].pc = "done"
          /\ task[t].toolReply.kind \in {"JSONRPCError", "Exception"} )
        => task[t].outcome = "raise"

\* C9: when the reply to initialize is an ErrorResponse or a transport error
\* the session sends nothing after the initialize request and no session
\* identifier is taken from it.
C9_FailedHandshakeStops ==
    \A t \in Tasks :
        task[t].initReply.kind \in {"JSONRPCError", "Exception"} =>
            /\ Methods(task[t].sess) = <<"initialize">>
            /\ task[t].outcome = "raise"

\* C10 as stated: call_tool fails with a ToolCallError when the reply to
\* tools/call is an ErrorResponse or another message that is no Response.
C10_FailsWithToolCallError ==
    \A t \in Tasks :
        ( /\ task[t].kind = "call"
          /\ task[t].pc = "done"
          /\ task[t].toolReply.kind
                \in {"JSONRPCError", "JSONRPCNotification", "JSONRPCRequest"} )
        => /\ task[t].outcome = "raise"
           /\ task[t].error.type = "ToolCallError"
           /\ Contains(Str(task[t].error), <<task[t].tool>>)

\* C10 as amended: in those cases call_tool raises the plain Exception
\* "Unexpected response format from tool call", which names neither the tool
\* nor the cause, and returns no result mapping.
C10_FailsWithPlainException ==
    \A t \in Tasks :
        ( /\ task[t].kind = "call"
          /\ task[t].pc = "done"
          /\ task[t].toolReply.kind
                \in {"JSONRPCError", "JSONRPCNotification", "JSONRPCRequest"} )
        => /\ task[t].outcome = "raise"
           /\ task[t].value = NoValue
           /\ task[t].error = UnexpectedFormat
           /\ ~Contains(Str(task[t].error), <<task[t].tool>>)

\* C10 witness: tools/call was answered with an ErrorResponse.
C10_Witness ==
    \E t \in Tasks :
        /\ task[t].kind = "call"
        /\ task[t].pc = "done"
        /\ task[t].toolReply.kind = "JSONRPCError"

\* C11: introspect_tools, given a Response to tools/list whose result has no
\* tools key, returns the empty list and raises nothing.
C11_MissingToolsKeyGivesEmptyList ==
    \A t \in Tasks :
        ( /\ task[t].kind = "list"
          /\ task[t].pc = "done"
          /\ task[t].toolReply.kind = "JSONRPCResponse"
          /\ "tools" \notin DOMAIN task[t].toolReply.result )
        => /\ task[t].outcome = "return"
           /\ task[t].value = JList(<<>>)
           /\ task[t].error = NoError

\* C11 witness: tools/list was answered with a non-empty result that has no
\* tools key.
C11_Witness ==
    \E t \in Tasks :
        /\ task[t].kind = "list"
        /\ task[t].pc = "done"
        /\ task[t].toolReply.kind = "JSONRPCResponse"
        /\ task[t].toolReply.result = [nextCursor |-> JStr("c1")]

\* C12: introspect_tools, given a Response to tools/list whose result.tools is
\* present but no array, returns the empty list: neither the value itself
\* nor an error.
C12_NonArrayToolsGivesEmptyList ==
    \A t \in Tasks :
        ( /\ task[t].kind = "list"
          /\ task[t].pc = "done"
          /\ task[t].toolReply.kind = "JSONRPCResponse"
          /\ "tools" \in DOMAIN task[t].toolReply.result
          /\ task[t].toolReply.result.tools.t # "list" )
        => /\ task[t].outcome = "return"
           /\ task[t].value = JList(<<>>)

\* C13: a transport session is open only while the operation that opened it
\* is running, whichever way that operation ends, and a session that has been
\* closed is never written to or reopened: each operation opens its own.
C13_SessionClosedOnEveryPath ==
    /\ [](\A i \in 1..Len(sessions) :
            sessions[i].open =>
                \E t \in Tasks : /\ task[t].sess = i
                                 /\ task[t].pc \notin {"idle", "open", "done"})
    /\ [][\A i \in 1..Len(sessions) :
            /\ ~sessions[i].open =>
                   /\ ~sessions'[i].open
                   /\ sessions'[i].sent = sessions[i].sent
                   /\ sessions'[i].kind = sessions[i].kind
                   /\ sessions'[i].headers = sessions[i].headers
            /\ \A t \in Tasks :
                 (task[t].pc = "open" /\ task'[t].sess # 0)
                     => task'[t].sess = Len(sessions) + 1]_vars

\* C13 witness: the retry of the listing has failed too; the first attempt
\* failed awaiting the reply to tools/list and both sessions are closed.
C13_Witness ==
    /\ driver = "query"
    /\ Len(sessions) = 2
    /\ Methods(1) = <<"initialize", "notifications/initialized", "tools/list">>
    /\ task["a"].pc = "done"
    /\ task["a"].outcome = "raise"
    /\ \A i \in 1..2 : ~sessions[i].open

\* C14: the notifications/initialized message has no id field and takes no id
\* from the counter (the tool request that follows has the id after that of
\* initialize), and once it is sent the operation goes on to the tool request
\* without a receive.
C14_NotificationHasNoId ==
    \A i \in 1..Len(sessions) :
        \A k \in 1..Len(sessions[i].sent) :
            sessions[i].sent[k].method = "notifications/initialized" =>
                /\ "id" \notin DOMAIN sessions[i].sent[k]
                /\ k = 2
                /\ Len(sessions[i].sent) >= 3 =>
                       sessions[i].sent[3].id = sessions[i].sent[1].id + 1
                /\ \A t \in Tasks :
                       (task[t].sess = i /\ Len(sessions[i].sent) = 2) =>
                           /\ task[t].pc \in {"req_send", "done"}
                           /\ task[t].initReply.kind # "none"
                           /\ task[t].toolReply.kind = "none"
                           /\ task[t].pc = "req_send" =>
                                  task[t].reqId = sessions[i].sent[1].id + 1

\* C14 witness: a session has sent initialize, the notification and the tool
\* request, and its operation has returned.
C14_Witness ==
    \E t \in Tasks :
        /\ task[t].pc = "done"
        /\ task[t].outcome = "return"
        /\ Len(sessions[task[t].sess].sent) = 3
        /\ sessions[task[t].sess].sent[2] = InitializedNotification

\* C15 as stated: a pasted text that is "Bearer <t>" gives the token <t>, an
\* empty or whitespace-only text gives None, and every other text is taken
\* as the token after trimming.
C15_BearerPrefixStripped ==
    oauth.pasted.given =>
        LET s == Strip(oauth.pasted.text)
        IN  IF s = <<>>
            THEN oauth.token = NoToken
            ELSE IF StartsWith(s, BearerPrefix)
                 THEN oauth.token = Token(DropFirst(s, 7))
                 ELSE oauth.token = Token(s)

\* C15 as amended: the prefix is recognised in any letter case ("bearer ",
\* "BEARER "), on the trimmed text; its seven characters are removed and the
\* rest is the token, which the retry then sends as "Authorization: Bearer
\* <t>"; an empty or whitespace-only text gives None and every other text is
\* taken as the token after trimming.
C15_BearerPrefixStrippedAnyCase ==
    oauth.pasted.given =>
        LET s == Strip(oauth.pasted.text)
        IN  /\ IF s = <<>>
               THEN oauth.token = NoToken
               ELSE IF StartsWith(Lower(s), <<"b", "e", "a", "r", "e", "r", " ">>)
                    THEN oauth.token = Token(SubSeq(s, 8, Len(s)))
                    ELSE oauth.token = Token(s)
            /\ (mpc \in {"retry_wait", "done"} /\ oauth.token.some) =>
                   /\ "Authorization" \in DOMAIN headers
                   /\ headers["Authorization"] = BearerPrefix \o oauth.token.v

\* C15 witness: "BEARER x" was pasted and the retry carries the token "x".
C15_Witness ==
    /\ oauth.pasted = [given |-> TRUE, text |-> <<"B", "E", "A", "R", "E", "R", " ", "x">>]
    /\ oauth.token = Token(<<"x">>)
    /\ mpc = "retry_wait"
    /\ "Authorization" \in DOMAIN headers

\* C16: the headers a session is opened with never hold both forms of
\* credential, an Authorization header and an API-key header.
C16_OneCredentialForm ==
    \A i \in 1..Len(sessions) :
        ~ /\ "Authorization" \in DOMAIN sessions[i].headers
          /\ \E h \in ApiKeyHeaders : h \in DOMAIN sessions[i].headers

\* C17: the credential a session holds is the one it was constructed with,
\* never changed in place; after the bearer token was supplied for the retry,
\* the first attempt's session still holds no token and the retry runs on a
\* session of its own that holds it.
C17_CredentialFixedAtConstruction ==
    /\ \A i \in 1..Len(sessions) : sessions[i].held = sessions[i].headers
    /\ (driver = "query" /\ Len(sessions) = 2) =>
            /\ "Authorization" \notin DOMAIN sessions[1].held
            /\ "Authorization" \in DOMAIN sessions[2].held
            /\ sessions[2].held["Authorization"] = BearerPrefix \o oauth.token.v

\* C18: an operation that was handed an Exception in place of the reply to
\* initialize or to its tool request, or whose session could not be opened,
\* ends by raising that very error; an operation that returns a value has
\* met none of them, and query_mcp_server's except clause sees the error the
\* operation raised.
C18_ExceptionsReraisedUnchanged ==
    /\ \A t \in Tasks :
          task[t].pc = "done" =>
              /\ task[t].initReply.kind = "Exception" =>
                     /\ task[t].outcome = "raise"
                     /\ task[t].error = task[t].initReply.error
              /\ task[t].toolReply.kind = "Exception" =>
                     /\ task[t].outcome = "raise"
                     /\ task[t].error = task[t].toolReply.error
              /\ task[t].sess = 0 =>
                     /\ task[t].outcome = "raise"
                     /\ task[t].error \in AbortErrors
              /\ task[t].outcome = "return" =>
                     /\ task[t].error = NoError
                     /\ task[t].initReply.kind \notin {"none", "Exception"}
                     /\ task[t].toolReply.kind \notin {"none", "Exception"}
    /\ (driver = "query" /\ mpc = "oauth") => firstError = task["a"].error

\* C18 witness: a listing was handed an HTTP 500 error in place of the reply
\* to tools/list and has raised it.
C18_Witness ==
    \E t \in Tasks :
        /\ task[t].kind = "list"
        /\ task[t].pc = "done"
        /\ task[t].toolReply = [kind |-> "Exception", error |-> HTTPStatusError(500)]
        /\ task[t].error = HTTPStatusError(500)

\* C20: when initialize was answered with a Response and tools/list with a
\* Response whose result.tools is a list of tool descriptors (mappings),
\* introspect_tools returns that list itself: the same descriptors in the
\* same order, none added, dropped or altered.
C20_ReturnsExactlyTheToolsList ==
    \A t \in Tasks :
        ( /\ task[t].kind = "list"
          /\ task[t].pc = "done"
          /\ task[t].initReply.kind = "JSONRPCResponse"
          /\ task[t].toolReply.kind = "JSONRPCResponse"
          /\ "tools" \in DOMAIN task[t].toolReply.result
          /\ task[t].toolReply.result.tools.t = "list"
          /\ \A k \in 1..Len(task[t].toolReply.result.tools.items) :
                 task[t].toolReply.result.tools.items[k].t = "dict" )
        => /\ task[t].outcome = "return"
           /\ task[t].value.t = "list"
           /\ task[t].value.items = task[t].toolReply.result.tools.items

\* C20 witness: the server listed the descriptors add and echo, in that order,
\* and the listing has returned the two of them in that order.
C20_Witness ==
    \E t \in Tasks :
        /\ task[t].kind = "list"
        /\ task[t].pc = "done"
        /\ task[t].initReply.kind = "JSONRPCResponse"
        /\ task[t].toolReply.kind = "JSONRPCResponse"
        /\ task[t].toolReply.result = [tools |-> JList(<<Add, Echo>>)]
        /\ task[t].value = JList(<<Add, Echo>>)

\* C21: an operation that returns has sent exactly initialize, the
\* notification and one tool request, in this order, and it sent the
\* notification and the tool request only after the response to initialize
\* (a Response or ErrorResponse with the id of that request) had been
\* received, so that no two requests were outstanding together.
C21_ThreeEnvelopesOneOutstanding ==
    \A t \in Tasks :
        (task[t].pc = "done" /\ task[t].outcome = "return") =>
            LET sent == sessions[task[t].sess].sent
            IN  /\ Methods(task[t].sess) =
                       <<"initialize", "notifications/initialized",
                         IF task[t].kind = "list" THEN "tools/list" ELSE "tools/call">>
                /\ task[t].initReply.kind \in {"JSONRPCResponse", "JSONRPCError"}
                /\ task[t].initReply.id = sent[1].id

\* C22: what an operation takes as the reply to initialize or to its tool
\* request is a Response or ErrorResponse that carries the id of that
\* request; a message with another id, a notification or a request of the
\* server is never taken.
C22_ReplyMatchesRequestId ==
    \A t \in Tasks :
        /\ task[t].initReply.kind \notin {"none", "Exception"} =>
               /\ task[t].initReply.kind \in {"JSONRPCResponse", "JSONRPCError"}
               /\ task[t].initReply.id = sessions[task[t].sess].sent[1].id
        /\ task[t].toolReply.kind \notin {"none", "Exception"} =>
               /\ task[t].toolReply.kind \in {"JSONRPCResponse", "JSONRPCError"}
               /\ task[t].toolReply.id = sessions[task[t].sess].sent[3].id

\* C23: query_mcp_server opens the session of its first attempt without any
\* credential; after an OAuth flow that gave a token the retry opens a second
\* session, new and so far unused, whose only header is Authorization with
\* the value "Bearer " followed by that token.
C23_RetryCarriesBearerToken ==
    driver = "query" =>
        LET retried == Truthy(oauth.token) /\ mpc \in {"retry_wait", "done"}
            r == task["a"].sess
        IN  /\ Len(sessions) <= 2
            /\ ~retried =>
                   /\ headers = EmptyDict
                   /\ Len(sessions) <= 1
                   /\ \A i \in 1..Len(sessions) : DOMAIN sessions[i].headers = {}
            /\ (retried /\ r # 0) =>
                   /\ oauthCalls = 1
                   /\ r = Len(sessions)
                   /\ DOMAIN sessions[r].headers = {"Authorization"}
                   /\ sessions[r].headers["Authorization"] =
                          <<"B", "e", "a", "r", "e", "r", " ">> \o oauth.token.v
                   /\ \A i \in 1..(r - 1) :
                          /\ DOMAIN sessions[i].headers = {}
                          /\ ~sessions[i].open

\* C23 witness: the retry has opened its session with the token "tok", pasted
\* as "Bearer tok".
C23_Witness ==
    /\ driver = "query"
    /\ Len(sessions) = 2
    /\ sessions[1].headers = EmptyDict
    /\ oauth.token = Token(<<"t", "o", "k">>)
    /\ sessions[2].headers["Authorization"] =
           <<"B", "e", "a", "r", "e", "r", " ", "t", "o", "k">>

\* C24: when the browser cannot be launched, whether the launcher is missing
\* or exits with a non-zero status, the flow prints the URL and goes on to
\* the completion prompt; it does not end with None at this point.
C24_BrowserFailureContinues ==
    oauth.browser \in {"CalledProcessError", "FileNotFoundError"} =>
        /\ oauth.urlPrinted
        /\ oauth.prompts # <<>>

\* C25: the prompts of the interactive flow come in one order: the completion
\* prompt is shown only once the URL has been generated and presented (the
\* browser opened, or the URL printed), the token prompt only once the
\* completion prompt has been answered, and a token is read only at the
\* token prompt.
C25_PromptsInFixedOrder ==
    /\ oauth.prompts \in {<<>>, <<"complete">>, <<"complete", "token">>}
    /\ oauth.prompts # <<>> =>
           /\ oauth.email # <<>>
           /\ \/ oauth.browser = "opened" /\ ~oauth.urlPrinted
              \/ oauth.browser = "CalledProcessError" /\ oauth.urlPrinted
    /\ oauth.pc = "complete" => oauth.prompts = <<"complete">>
    /\ oauth.pc = "token" => oauth.prompts = <<"complete", "token">>
    /\ oauth.pasted.given => oauth.prompts = <<"complete", "token">>
    /\ ~oauth.pasted.given => (oauth.pc # "finished" => oauth.token = NoToken)

\* C25 witness: a token was pasted at the token prompt, after the launcher
\* had failed and the URL had been printed.
C25_Witness ==
    /\ oauth.pc = "finished"
    /\ oauth.browser = "CalledProcessError"
    /\ oauth.pasted.given
    /\ oauth.token.some
    /\ oauth.prompts = <<"complete", "token">>

\* C26: the interactive flow never posts to the token endpoint: whatever is
\* typed at its prompts, no call of exchange_code_for_token is made while
\* query_mcp_server and its OAuth flow run.
C26_InteractiveFlowNeverExchanges ==
    (driver = "query" \/ oauth.pc # "idle") =>
        /\ exchange.calls = 0
        /\ exchange.posts = 0
        /\ exchange.pc = "idle"

\* C26 witness: the interactive flow has ended with a pasted token.
C26_Witness ==
    /\ oauth.pc = "finished"
    /\ oauth.prompts = <<"complete", "token">>
    /\ oauth.pasted.given
    /\ oauth.token.some
    /\ exchange.posts = 0

\* C27: every call of exchange_code_for_token issues one POST and no more;
\* when the POST fails to connect, comes back with a status that is not 2xx,
\* or with a body that is no JSON, the call returns None: it raises nothing
\* and posts nothing again.
C27_ExchangeReturnsNoneOnFailure ==
    /\ exchange.posts = exchange.calls
    /\ exchange.posts <= MaxOps
    /\ exchange.pc = "done" =>
           /\ exchange.outcome = "return"
           /\ ( \/ exchange.response.kind = "ConnectError"
                \/ exchange.response.status \notin {200, 201}
                \/ exchange.response.body = "invalid" )
              => exchange.value = None

\* C27 witness: a second call has ended after a POST answered with status 500.
C27_Witness ==
    /\ exchange.pc = "done"
    /\ exchange.calls = 2
    /\ exchange.posts = 2
    /\ exchange.response.status = 500
    /\ exchange.value = None

\* C28: session_id is None while the client has opened no session or its
\* first handshake still waits for the reply to initialize, and it is
\* assigned in one place only: in the step that receives the reply to
\* initialize, when only the initialize request has been sent on the session,
\* before the notification.
C28_SessionIdRecordedAfterInitialize ==
    /\ []( ( \/ Len(sessions) = 0
             \/ /\ Len(sessions) = 1
                /\ \E t \in Tasks : /\ task[t].sess = 1
                                    /\ task[t].pc \in {"init_send", "init_recv"} )
           => session_id = None )
    /\ [][session_id' # session_id =>
            \E t \in Tasks :
                /\ task[t].pc = "init_recv"
                /\ Methods(task[t].sess) = <<"initialize">>
                /\ task'[t].pc = "notif_send"
                /\ task'[t].initReply.kind \notin {"none", "Exception"}
                /\ sessions' = sessions]_vars

\* C28 witness: the handshake has recorded the identifier "sess-1" and has
\* not sent the notification yet.
C28_Witness ==
    \E t \in Tasks :
        /\ task[t].pc = "notif_send"
        /\ session_id = "sess-1"
        /\ Methods(task[t].sess) = <<"initialize">>

\* C29: an operation leaves a receive only with what the receive yielded, a
\* message taken as the reply or an error of the transport: there is no step
\* by which it gives up waiting. When every receive yields in the end, the
\* operation ends.
C29_NoTimeoutButTerminates ==
    /\ [][\A t \in Tasks :
            (task[t].pc \in {"init_recv", "req_recv"} /\ task'[t].pc # task[t].pc) =>
                \/ task[t].pc = "init_recv" /\ task'[t].initReply # NoReply
                \/ task[t].pc = "req_recv" /\ task'[t].toolReply # NoReply
                \/ /\ task'[t].outcome = "raise"
                   /\ task'[t].error \in AbortErrors]_vars
    /\ \A t \in Tasks : <>(task[t].pc = "done")

\* C29 witness: the operation has returned after both of its receives
\* yielded a message.
C29_Witness ==
    \E t \in Tasks :
        /\ task[t].pc = "done"
        /\ task[t].outcome = "return"
        /\ task[t].initReply # NoReply
        /\ task[t].toolReply # NoReply

\* C30: over the whole life of a client, every request it sends has an id
\* greater than the id of every request it sent before, on the same session
\* or on an earlier one, whether the earlier operations returned or failed;
\* no id is sent twice and every id sent is below the counter.
C30_IdsNeverReused ==
    \A i, m \in 1..Len(sessions) :
        \A j \in RequestPositions(i), k \in RequestPositions(m) :
            /\ (i < m \/ (i = m /\ j < k)) =>
                   sessions[i].sent[j].id < sessions[m].sent[k].id
            /\ (i # m \/ j # k) => sessions[i].sent[j].id # sessions[m].sent[k].id
            /\ sessions[i].sent[j].id < next_request_id

\* C30 witness: a caller's first operation failed in the handshake, after its
\* initialize request, and the second one has sent both of its requests.
C30_Witness ==
    /\ driver = "caller"
    /\ Len(sessions) = 2
    /\ Methods(1) = <<"initialize">>
    /\ task["a"].sess = 2
    /\ Cardinality(RequestPositions(2)) = 2

\* C35: whatever the user pastes, interactive_auth_flow returns None or a
\* non-empty string, never the empty string, also for a text that is only a
\* Bearer prefix and whitespace.
C35_FlowNeverReturnsEmptyToken ==
    oauth.pasted.given => (~oauth.returned.some \/ oauth.returned.v # <<>>)

\* C35 witness: the pasted text was the prefix "Bearer " alone and the flow
\* has returned a non-empty string for it.
C35_Witness ==
    /\ oauth.pc = "finished"
    /\ oauth.pasted.given
    /\ oauth.pasted.text = BearerPrefix
    /\ oauth.returned.some
    /\ oauth.returned.v # <<>>

\* C36: every token interactive_auth_flow returns has no leading and no
\* trailing whitespace, also when more than one space separates the Bearer
\* prefix from the token.
C36_ReturnedTokenIsTrimmed ==
    (oauth.pasted.given /\ oauth.returned.some) =>
        Strip(oauth.returned.v) = oauth.returned.v

\* C37 (as stated): what interactive_auth_flow displays of an accepted token
\* is a strict prefix of it, of at most 20 characters.
C37_DisplayIsStrictPrefix ==
    (oauth.pasted.given /\ oauth.returned.some) =>
        /\ Len(oauth.shown.text) < Len(oauth.returned.v)
        /\ Len(oauth.shown.text) <= PreviewLen
        /\ oauth.shown.text = SubSeq(oauth.returned.v, 1, Len(oauth.shown.text))

\* C37 (amended): of an accepted token of more than 20 characters the flow
\* displays the first 20 characters only, marked as a preview; an accepted
\* token of at most 20 characters is displayed whole.
C37_OnlyLongTokensAreCut ==
    (oauth.pasted.given /\ oauth.returned.some) =>
        LET token == oauth.returned.v
        IN  /\ Len(token) > PreviewLen =>
                /\ oauth.shown.preview
                /\ oauth.shown.text = SubSeq(token, 1, PreviewLen)
                /\ Len(oauth.shown.text) < Len(token)
            /\ Len(token) <= PreviewLen =>
                /\ ~oauth.shown.preview
                /\ oauth.shown.text = token

\* C37 witness: a token of 21 characters was accepted and its first 20
\* characters were displayed.
C37_Witness ==
    /\ oauth.pc = "finished"
    /\ oauth.returned.some
    /\ Len(oauth.returned.v) > PreviewLen
    /\ oauth.shown.preview
    /\ Len(oauth.shown.text) = PreviewLen

\* C38: every execution of query_mcp_server that has ended, by a return or
\* by an exception, has displayed exactly one final panel: the tools panel,
\* the authenticated tools panel or an error panel.
C38_ExactlyOneFinalPanel ==
    mpc \in {"done", "raised"} =>
        /\ Len(panels) = 1
        /\ panels[1] \in {ToolsPanel, AuthenticatedToolsPanel,
                          AuthenticatedFailedPanel, AuthRequiredPanel,
                          McpErrorPanel}

\* C32: an operation whose handshake fails because the reply to initialize
\* is an exception of the transport changes neither the session identifier
\* nor the headers of the client at any of its steps, and takes one request
\* id: the counter stands one above the id of its initialize request.
C32_FailedHandshakeFrame ==
    /\ [](\A t \in Tasks :
            ( /\ task[t].pc = "done"
              /\ task[t].initReply.kind = "Exception" ) =>
                /\ Methods(task[t].sess) = <<"initialize">>
                /\ next_request_id = task[t].reqId + 1)
    /\ [][\A t \in Tasks :
            ( \/ task[t].pc = "open" /\ task'[t].pc = "init_send"
              \/ task[t].pc = "init_send" /\ task'[t].pc = "init_recv"
              \/ /\ task[t].pc = "init_recv"
                 /\ task'[t].pc = "done"
                 /\ task'[t].initReply.kind = "Exception" ) =>
                /\ session_id' = session_id
                /\ headers' = headers
                /\ next_request_id' =
                       IF task[t].pc = "open" THEN next_request_id + 1
                                              ELSE next_request_id]_vars

\* C32 witness: on a client that holds a session identifier and a header
\* from earlier use, an operation has failed on an exception read as the
\* reply to initialize; identifier and header are still there.
C32_Witness ==
    \E t \in Tasks :
        /\ task[t].pc = "done"
        /\ task[t].outcome = "raise"
        /\ task[t].initReply.kind = "Exception"
        /\ task[t].reqId > 1
        /\ session_id = "sess-1"
        /\ "Authorization" \in DOMAIN headers

\* C33: a call set_bearer_token(t) sets the Authorization entry of the
\* client's headers to "Bearer t" and changes nothing else: every other
\* entry, the URL, the auth object, the request id counter and the session
\* identifier stay as they were; after several calls the entry holds the
\* token of the last call.
C33_SetBearerTokenFrame ==
    /\ [](lastSet.op = "set_bearer_token" =>
            Entry(headers, "Authorization") = BearerPrefix \o lastSet.value)
    /\ [][lastSet'.op = "set_bearer_token" =>
            /\ DOMAIN headers' = DOMAIN headers \cup {"Authorization"}
            /\ headers'["Authorization"] = BearerPrefix \o lastSet'.value
            /\ \A k \in DOMAIN headers \ {"Authorization"} : headers'[k] = headers[k]
            /\ ctor'.url = ctor.url
            /\ ctor'.auth = ctor.auth
            /\ next_request_id' = next_request_id
            /\ session_id' = session_id]_vars

\* C33 witness: the client was constructed without an Authorization header,
\* set_bearer_token was called with one token and then with another, and the
\* headers hold the second token next to an entry of another name.
C33_Witness ==
    /\ "Authorization" \notin DOMAIN ctor.passed
    /\ lastSet.op = "set_bearer_token"
    /\ lastSet.value = <<"t", "2">>
    /\ lastSet.old = BearerPrefix \o <<"t", "1">>
    /\ headers["Authorization"] = BearerPrefix \o <<"t", "2">>
    /\ DOMAIN headers # {"Authorization"}

\* C34: the mapping the caller passed to the constructor has, after any
\* calls of set_bearer_token and set_api_key, the entries it had when it was
\* passed.
C34_CallersMappingUntouched ==
    ctor.given => ctor.mapping = ctor.passed

\* C31: when two operations on one client run concurrently and take turns
\* at their sends and receives, the requests they send carry pairwise
\* distinct ids, and no request waiting to be sent carries the id of another.
C31_ConcurrentIdsDistinct ==
    /\ \A i, m \in 1..Len(sessions) :
        \A j \in RequestPositions(i), k \in RequestPositions(m) :
            (i # m \/ j # k) => sessions[i].sent[j].id # sessions[m].sent[k].id
    /\ \A t, u \in ConcurrentTasks :
        (t # u /\ task[t].reqId # 0) => task[t].reqId # task[u].reqId

\* C31 witness: both operations have sent both of their requests, and each
\* of them sent a request between the two requests of the other.
C31_Witness ==
    /\ Len(sessions) = 2
    /\ Cardinality(RequestPositions(1)) = 2
    /\ Cardinality(RequestPositions(2)) = 2
    /\ \E j \in RequestPositions(1), k \in RequestPositions(2) :
          sessions[1].sent[j].id > sessions[2].sent[k].id
    /\ \E j \in RequestPositions(1), k \in RequestPositions(2) :
          sessions[1].sent[j].id < sessions[2].sent[k].id
    /\ \A t \in ConcurrentTasks : task[t].pc = "done"

====
